---- MODULE Spec2Model ----
(***************************************************************************)
(* A model of laktory's FileDataSink (write-mode resolution, write         *)
(* options, merge delegation, purge) and of the pipeline core that drives  *)
(* it.                                                                     *)
(***************************************************************************)
EXTENDS Integers, Sequences, FiniteSets, TLC

VARIABLES
    sink,        \* the FileDataSink under test, or NoSink before construction
    attempt,     \* the arguments of the last constructor call
    target,      \* what is stored at sink.path
    checkpoint,  \* the checkpoints on disk: location -> committed offset
    last,        \* the trace of the last operation on the sink
    written,     \* the last successful write whose data is still stored at
                 \* sink.path: the writer's format and the dataframe written
    nodes,        \* a pipeline's nodes in declaration order: the node each one's
                  \* source reads and the node a step of its transformer names
    sorted_nodes, \* Pipeline.sorted_nodes
    run,          \* the progress of Pipeline.execute
    landing,      \* the rows of the source table a pipeline reads
    append_only,  \* the source was only appended to since the last full refresh
    store,        \* the pipeline's sinks: sink -> what is stored at its path
    cps,          \* the pipeline's checkpoints: location -> committed offset
    prun,         \* the progress of the pipeline's current execution
    root_path,    \* Pipeline.root_path of a pipeline whose layout is examined
    pl_sinks,     \* that pipeline's sinks: owning node, path, checkpoint_location
    attrs,        \* the sink's path, dataframe_backend and parent
    source,       \* the last call of sink.as_source: its argument and its result
    ruleset,      \* the AccessControlRuleSet constructed last, or NoRuleSet
    rs_call,      \* the last constructor call of AccessControlRuleSet
    tf_args       \* the last resource arguments computed from ruleset

sinkVars == <<sink, attempt, target, checkpoint, last, written>>

dagVars == <<nodes, sorted_nodes, run>>

pipeVars == <<landing, append_only, store, cps, prun>>

layoutVars == <<root_path, pl_sinks>>

sourceVars == <<attrs, source>>

rulesetVars == <<ruleset, rs_call, tf_args>>

vars == <<sinkVars, dagVars, pipeVars, layoutVars, sourceVars, rulesetVars>>

nonSinkVars == <<dagVars, pipeVars, layoutVars, sourceVars, rulesetVars>>

nonDagVars == <<sinkVars, pipeVars, layoutVars, sourceVars, rulesetVars>>

nonPipeVars == <<sinkVars, dagVars, layoutVars, sourceVars, rulesetVars>>

nonLayoutVars == <<sinkVars, dagVars, pipeVars, sourceVars, rulesetVars>>

nonSourceVars == <<dagVars, pipeVars, layoutVars, rulesetVars>>

nonRulesetVars == <<sinkVars, dagVars, pipeVars, layoutVars, sourceVars>>

(***************************************************************************)
(* Values                                                                  *)
(***************************************************************************)

None == "None"

\* filedatasink.py:74
Formats == {"CSV", "PARQUET", "DELTA", "JSON", "EXCEL"}

\* The write modes a sink can be configured with (None when left out).
ConfigModes == {None, "APPEND", "OVERWRITE", "COMPLETE", "MERGE"}

\* The `mode` argument of a write call: any string, or None.
ArgModes == {None, "", "APPEND", "OVERWRITE", "COMPLETE", "MERGE", "merge", "overwrite"}

\* str.lower() on the strings of the model.
Lower(s) ==
    CASE s = "MERGE" -> "merge"
      [] s = "OVERWRITE" -> "overwrite"
      [] s = "APPEND" -> "append"
      [] s = "COMPLETE" -> "complete"
      [] s = "CSV" -> "csv"
      [] s = "PARQUET" -> "parquet"
      [] s = "DELTA" -> "delta"
      [] s = "JSON" -> "json"
      [] s = "EXCEL" -> "excel"
      [] OTHER -> s

\* A dict[str, str] is a function from its keys to its values.
EmptyDict == [k \in {} |-> "x"]

Dict1(k, v) == [x \in {k} |-> v]

\* Python's `for k, v in u.items(): d[k] = v`
DictUpdate(d, u) ==
    [k \in (DOMAIN d) \cup (DOMAIN u) |-> IF k \in DOMAIN u THEN u[k] ELSE d[k]]

\* The write_options a sink is configured with in this model.
WriteOptionChoices ==
    { EmptyDict,
      DictUpdate(Dict1("mergeSchema", "false"), Dict1("header", "true")),
      DictUpdate(Dict1("mergeSchema", "true"), Dict1("overwriteSchema", "true")) }

ClusterByChoices == {<<>>, <<"symbol">>}

\* The dataframes handed to write.
Dfs == {"df1", "df2"}

\* The dataframe of the writes whose rows no property looks at.
OneDf == {"df1"}

\* The longest history of writes kept at the target.
MaxData == 2

NoSink == [constructed |-> FALSE]

Absent == [kind |-> "absent", rows |-> <<>>]

(***************************************************************************)
(* Construction: FileDataSink.merge_and_format                             *)
(***************************************************************************)

\* A validator that compares the mode in the wrong case.
merge_and_format_wrong_case(mode, format) ==
    mode = "merge" /\ Lower(format) \notin {"delta"}

\* TRUE when the validator raises.
merge_and_format(mode, format) ==
    mode = "MERGE" /\ Lower(format) \notin {"delta"}

NewSink(mode, format, opts, cdc, cluster) ==
    [constructed |-> TRUE, mode |-> mode, format |-> format,
     write_options |-> opts, has_cdc |-> cdc, cluster_by |-> cluster]

NoCall == [kind |-> "none", mode |-> None, format |-> None,
           options |-> EmptyDict, cluster_by |-> <<>>]

\* What an operation leaves in `last`.
Trace(op, outcome, mode, fr, streaming, existed, call, cdc, optsDone) ==
    [op |-> op, outcome |-> outcome, arg_mode |-> mode, full_refresh |-> fr,
     streaming |-> streaming, existed |-> existed, call |-> call,
     cdc_calls |-> cdc, options_computed |-> optsDone]

NoTrace == Trace("none", "ok", None, FALSE, FALSE, FALSE, NoCall, 0, FALSE)

\* A format outside the Literal of the `format` field.
FormatArgs == Formats \cup {"AVRO"}

\* The `path` argument: the sink's path, or None when it is left out.
PathArgs == {None, "tables/brz"}

\* TRUE when pydantic refuses the fields: `format` is a Literal, `path` a
\* required str.
field_validation(format, path) == format \notin Formats \/ path = None

NoWrite == [done |-> FALSE]

\* A refusal of the fields and a raise of the validator both reach the
\* caller as pydantic's ValidationError, a ValueError.
Construct(mode, format, path, opts, cdc, cluster) ==
    /\ ~sink.constructed
    /\ attempt' = [mode |-> mode, format |-> format, path |-> path]
    /\ IF field_validation(format, path) \/ merge_and_format(mode, format)
       THEN /\ sink' = NoSink
            /\ last' = Trace("construct", "ValueError", None, FALSE, FALSE, FALSE,
                             NoCall, 0, FALSE)
       ELSE /\ sink' = NewSink(mode, format, opts, cdc, cluster)
            /\ last' = Trace("construct", "ok", None, FALSE, FALSE, FALSE,
                             NoCall, 0, FALSE)
    /\ UNCHANGED <<target, checkpoint, written>>
    /\ UNCHANGED nonSinkVars

(***************************************************************************)
(* FileDataSink._write_spark                                               *)
(***************************************************************************)

\* BaseDataSink.exists: the target location is present.
exists(tgt) == tgt.kind # "absent"

\* The value of self._checkpoint_location for the sink under test.
SinkCheckpoint == <<"checkpoints", "sink">>

\* A write that forgets the configured mode.
EffectiveMode_ignores_config(s, mode) == mode

\* `if mode is None: mode = self.mode`
EffectiveMode(s, mode) == IF mode = None THEN s.mode ELSE mode

\* A comparison that forgets lower().
IsMerge_case_sensitive(mode) == mode = "merge"

\* `mode.lower() == "merge"`
IsMerge(mode) == Lower(mode) = "merge"

\* A purge that keeps the data and removes only the checkpoint.
purge_data_keep(tgt) == tgt

\* A switch that needs both a full refresh and a missing target.
ResolveMode_and(mode, full_refresh, tgtExists, isStreaming) ==
    IF full_refresh /\ ~tgtExists
    THEN IF isStreaming THEN mode ELSE "OVERWRITE"
    ELSE mode

\* "Full Refresh": the switch to OVERWRITE of a static write.
ResolveMode(mode, full_refresh, tgtExists, isStreaming) ==
    IF full_refresh \/ ~tgtExists
    THEN IF isStreaming THEN mode ELSE "OVERWRITE"
    ELSE mode

\* Defaults that leave the checkpoint location out.
DefaultOptions_no_checkpoint(mode, isStreaming, cp) ==
    IF mode \in {"OVERWRITE", "COMPLETE"}
    THEN DictUpdate(Dict1("mergeSchema", "false"), Dict1("overwriteSchema", "true"))
    ELSE DictUpdate(Dict1("mergeSchema", "true"), Dict1("overwriteSchema", "false"))

\* "Default Options"
DefaultOptions(mode, isStreaming, cp) ==
    LET d0 == DictUpdate(Dict1("mergeSchema", "true"), Dict1("overwriteSchema", "false"))
        d1 == IF mode \in {"OVERWRITE", "COMPLETE"}
              THEN DictUpdate(DictUpdate(d0, Dict1("mergeSchema", "false")),
                              Dict1("overwriteSchema", "true"))
              ELSE d0
    IN  IF isStreaming THEN DictUpdate(d1, Dict1("checkpointLocation", cp)) ELSE d1

\* Options merged the other way round: the defaults win.
ResolveOptions_defaults_win(s, mode, isStreaming, cp) ==
    DictUpdate(s.write_options, DefaultOptions(mode, isStreaming, cp))

\* "User Options"
ResolveOptions(s, mode, isStreaming, cp) ==
    DictUpdate(DefaultOptions(mode, isStreaming, cp), s.write_options)

\* What one call of a write method does: its outcome and the call it issues.
Result(outcome, call, cdc, optsDone) ==
    [outcome |-> outcome, call |-> call, cdc_calls |-> cdc, options_computed |-> optsDone]

Raise(exc) == Result(exc, NoCall, 0, FALSE)

WriterCall(kind, mode, s, options) ==
    [kind |-> kind, mode |-> mode, format |-> Lower(s.format),
     options |-> options, cluster_by |-> s.cluster_by]

MergeCall == [kind |-> "merge", mode |-> None, format |-> None,
              options |-> EmptyDict, cluster_by |-> <<>>]

write_spark(s, tgtExists, mode, full_refresh, isStreaming, cp) ==
    IF s.format \in {"EXCEL"}
    THEN Raise("ValueError")
    ELSE LET m0 == EffectiveMode(s, mode) IN
         IF m0 = None
         THEN Raise("AttributeError")            \* None has no lower()
         ELSE IF IsMerge(m0)
         THEN IF s.has_cdc
              THEN Result("ok", MergeCall, 1, FALSE)
              ELSE Raise("AttributeError")       \* None has no execute()
         ELSE LET m1 == ResolveMode(m0, full_refresh, tgtExists, isStreaming)
                  o  == ResolveOptions(s, m1, isStreaming, cp)
              IN  Result("ok",
                         WriterCall(IF isStreaming THEN "stream" ELSE "static", m1, s, o),
                         0, TRUE)

(***************************************************************************)
(* FileDataSink._write_polars                                              *)
(***************************************************************************)

\* Python truthiness of a mode: None and the empty string are falsy.
Truthy(mode) == mode \notin {None, ""}

\* df.write_csv / write_delta / write_excel / write_json / write_parquet:
\* the path, the mode for DELTA alone, the write options; no clustering.
PolarsCall(mode, s) ==
    [kind |-> "polars", mode |-> mode, format |-> Lower(s.format),
     options |-> s.write_options, cluster_by |-> <<>>]

\* A write that asks for the mode before the full-refresh override.
write_polars_mode_first(s, tgtExists, mode, full_refresh) ==
    IF s.format # "DELTA"
    THEN IF Truthy(mode)
         THEN Raise("ValueError")
         ELSE Result("ok", PolarsCall(None, s), 0, FALSE)
    ELSE IF ~Truthy(mode)
         THEN Raise("ValueError")
         ELSE Result("ok",
                     PolarsCall(IF full_refresh \/ ~tgtExists THEN "OVERWRITE" ELSE mode, s),
                     0, FALSE)

write_polars(s, tgtExists, mode, full_refresh) ==
    IF s.format # "DELTA"
    THEN IF Truthy(mode)
         THEN Raise("ValueError")
         ELSE Result("ok", PolarsCall(None, s), 0, FALSE)
    ELSE LET m1 == IF full_refresh \/ ~tgtExists THEN "OVERWRITE" ELSE mode IN
         IF ~Truthy(m1)
         THEN Raise("ValueError")
         ELSE Result("ok", PolarsCall(m1, s), 0, FALSE)

(***************************************************************************)
(* The dataframe engine: what a writer call does to the target.            *)
(***************************************************************************)

Dir(rows) == [kind |-> "dir", rows |-> rows]

File(rows) == [kind |-> "file", rows |-> rows]

Contains(rows, row) == \E i \in 1..Len(rows) : rows[i] = row

\* The CDC merge: one row per key, an existing key is updated in place.
MergeRows(rows, new) ==
    rows \o SelectSeq(new, LAMBDA row : ~Contains(rows, row))

\* The calls the engine refuses.
EngineRejects(tgt, call) ==
    \/ call.kind = "static" /\ Lower(call.mode) \notin {"overwrite", "append"}
    \/ call.kind = "static" /\ Lower(call.mode) = "append" /\ tgt.kind = "file"
    \/ call.kind = "stream" /\ Lower(call.mode) \notin {"append", "complete"}
    \/ call.kind = "stream" /\ tgt.kind = "file"
    \/ call.kind = "stream" /\ "checkpointLocation" \notin DOMAIN call.options
    \/ call.kind = "merge" /\ tgt.kind = "file"
    \/ call.kind = "polars" /\ call.format = "delta"
          /\ (Lower(call.mode) \notin {"overwrite", "append"} \/ tgt.kind = "file")
    \/ call.kind = "polars" /\ call.format # "delta" /\ tgt.kind = "dir"

\* The target after the engine has written `rows` as the call asks.
EngineWrite(tgt, call, rows) ==
    CASE call.kind = "merge" -> Dir(MergeRows(tgt.rows, rows))
      [] call.kind = "static" ->
            IF Lower(call.mode) = "overwrite" THEN Dir(rows) ELSE Dir(tgt.rows \o rows)
      [] call.kind = "stream" ->
            IF Lower(call.mode) = "complete" THEN Dir(rows) ELSE Dir(tgt.rows \o rows)
      [] call.kind = "polars" ->
            IF call.format = "delta"
            THEN IF Lower(call.mode) = "overwrite" THEN Dir(rows)
                 ELSE Dir(tgt.rows \o rows)
            ELSE File(rows)
      [] OTHER -> tgt

\* The format the engine stores the data in: the writer's, delta for a merge.
StoredFormat(call) == IF call.kind = "merge" THEN "delta" ELSE call.format

\* The checkpoints after a streaming query has committed `offset` at the
\* location its options name.
CommitOffset(cp, call, offset) ==
    IF call.kind = "stream"
    THEN DictUpdate(cp, Dict1(call.options["checkpointLocation"], offset))
    ELSE cp

\* One write call on the sink: the method, then the engine.
Apply(op, r, mode, full_refresh, isStreaming, df) ==
    LET rejected == r.outcome = "ok" /\ EngineRejects(target, r.call)
        outcome  == IF rejected THEN "EngineError" ELSE r.outcome
    IN  /\ last' = Trace(op, outcome, mode, full_refresh, isStreaming, exists(target),
                         r.call, r.cdc_calls, r.options_computed)
        /\ IF r.outcome = "ok" /\ ~rejected
           THEN /\ target' = EngineWrite(target, r.call, <<df>>)
                /\ Len(target'.rows) <= MaxData
                /\ checkpoint' = CommitOffset(checkpoint, r.call, Len(target'.rows))
                /\ written' = [done |-> TRUE, format |-> StoredFormat(r.call), df |-> df]
           ELSE UNCHANGED <<target, checkpoint, written>>
        /\ UNCHANGED <<sink, attempt>>
        /\ UNCHANGED nonSinkVars

WriteSpark(mode, full_refresh, isStreaming, df) ==
    /\ sink.constructed
    /\ Apply("write_spark",
             write_spark(sink, exists(target), mode, full_refresh, isStreaming, SinkCheckpoint),
             mode, full_refresh, isStreaming, df)

WritePolars(mode, full_refresh, df) ==
    /\ sink.constructed
    /\ Apply("write_polars", write_polars(sink, exists(target), mode, full_refresh),
             mode, full_refresh, FALSE, df)

(***************************************************************************)
(* FileDataSink.purge                                                      *)
(***************************************************************************)

\* A purge that removes directories only.
purge_data_dirs_only(tgt) == IF tgt.kind = "dir" THEN Absent ELSE tgt

\* "Remove Data": rmtree of a directory, remove of a file, nothing when absent.
purge_data(tgt) == IF exists(tgt) THEN Absent ELSE tgt

\* BaseDataSink._purge_checkpoint: the checkpoint directory is removed.
purge_checkpoint(cp, loc) == [l \in (DOMAIN cp) \ {loc} |-> cp[l]]

Purge ==
    /\ sink.constructed
    /\ target' = purge_data(target)
    /\ written' = IF exists(target') THEN written ELSE NoWrite
    /\ checkpoint' = purge_checkpoint(checkpoint, SinkCheckpoint)
    /\ last' = Trace("purge", "ok", None, FALSE, FALSE, exists(target), NoCall, 0, FALSE)
    /\ UNCHANGED <<sink, attempt>>
    /\ UNCHANGED nonSinkVars

(***************************************************************************)
(* Properties of the sink                                                  *)
(***************************************************************************)

IsWrite == last.op \in {"write_spark", "write_polars"}

\* The mode a Spark write starts from: the argument, else the configured one.
StartMode == IF last.arg_mode # None THEN last.arg_mode ELSE sink.mode

\* C1: a FileDataSink configured with mode MERGE and a format other than
\* DELTA is refused by the constructor with a ValueError, so no sink with
\* that configuration exists and no write is ever attempted on one.
C1_MergeOnlyForDelta ==
    /\ (attempt.mode = "MERGE" /\ attempt.format # "DELTA")
          => /\ ~sink.constructed
             /\ last.op = "construct" /\ last.outcome = "ValueError"
             /\ target = Absent /\ checkpoint = EmptyDict
    /\ sink.constructed => ~(sink.mode = "MERGE" /\ sink.format # "DELTA")
    /\ IsWrite => (sink.constructed /\ ~(sink.mode = "MERGE" /\ sink.format # "DELTA"))

C1_Witness ==
    /\ attempt.mode = "MERGE" /\ attempt.format = "CSV"
    /\ last.op = "construct" /\ last.outcome = "ValueError"

\* The case of C2: a static Spark write that starts from a mode other
\* than merge and reaches the writer.
StaticNonMerge ==
    /\ last.op = "write_spark" /\ ~last.streaming
    /\ StartMode # None /\ Lower(StartMode) # "merge"

\* C2: a static Spark write whose starting mode is not merge hands the
\* writer OVERWRITE when full_refresh is set or the target does not exist,
\* and its starting mode otherwise; it reaches the writer unless the format
\* is EXCEL; an append is never applied to a missing target.
C2_StaticModeResolution ==
    StaticNonMerge =>
        /\ (last.call.kind = "static") <=> (sink.format # "EXCEL")
        /\ last.call.kind = "static" =>
              /\ last.call.mode = IF last.full_refresh \/ ~last.existed
                                  THEN "OVERWRITE" ELSE StartMode
              /\ ~(Lower(last.call.mode) = "append" /\ ~last.existed)

C2_Witness ==
    /\ StaticNonMerge /\ last.arg_mode = "APPEND" /\ sink.mode = "COMPLETE"
    /\ ~last.existed /\ ~last.full_refresh
    /\ last.call.kind = "static" /\ last.call.mode = "OVERWRITE"
    /\ last.outcome = "ok" /\ target = Dir(<<"df1">>)

\* The case of C3: a Spark write whose effective mode is merge.
SparkMerge ==
    /\ last.op = "write_spark"
    /\ StartMode # None /\ Lower(StartMode) = "merge"

MergedOnce ==
    /\ last.cdc_calls = 1 /\ last.call.kind = "merge"
    /\ ~last.options_computed

\* C3 as stated: every Spark write whose effective mode is merge invokes
\* the CDC merge policy exactly once and issues no writer call.
C3_AsStated == SparkMerge => MergedOnce

\* C3, amended: a Spark write whose effective mode is merge (in any case)
\* on a sink whose format is not EXCEL and that has merge_cdc_options
\* invokes the merge exactly once, issues no writer call and computes no
\* options, whatever full_refresh and the target are; on an EXCEL sink it
\* raises ValueError before the merge.
C3_MergeDelegation ==
    SparkMerge =>
        /\ (sink.format # "EXCEL" /\ sink.has_cdc) => MergedOnce
        /\ sink.format = "EXCEL" =>
              (last.outcome = "ValueError" /\ last.cdc_calls = 0
                 /\ last.call.kind = "none")

C3_Witness ==
    /\ SparkMerge /\ sink.mode = "MERGE" /\ last.arg_mode = None
    /\ last.full_refresh /\ last.existed /\ MergedOnce /\ last.outcome = "ok"

\* The value C4 gives to option k of a write with resolved mode m.
ExpectedOption(k, m) ==
    IF k \in DOMAIN sink.write_options THEN sink.write_options[k]
    ELSE IF k = "mergeSchema"
         THEN (IF m = "OVERWRITE" \/ m = "COMPLETE" THEN "false" ELSE "true")
    ELSE IF k = "overwriteSchema"
         THEN (IF m = "OVERWRITE" \/ m = "COMPLETE" THEN "true" ELSE "false")
    ELSE SinkCheckpoint

\* C4: the options of a non-merge Spark write are, per key, the user's
\* write_options over the defaults implied by the resolved mode
\* (mergeSchema=false, overwriteSchema=true for OVERWRITE and COMPLETE) over
\* mergeSchema=true, overwriteSchema=false; a static write adds no other key.
C4_OptionPrecedence ==
    (last.op = "write_spark" /\ last.call.kind \in {"static", "stream"}) =>
        /\ last.options_computed
        /\ DOMAIN last.call.options =
              {"mergeSchema", "overwriteSchema"} \cup DOMAIN sink.write_options
                 \cup (IF last.call.kind = "stream" THEN {"checkpointLocation"} ELSE {})
        /\ \A k \in DOMAIN last.call.options :
              last.call.options[k] = ExpectedOption(k, last.call.mode)

C4_Witness ==
    /\ last.op = "write_spark" /\ last.call.kind = "static"
    /\ last.call.mode = "OVERWRITE"
    /\ "mergeSchema" \in DOMAIN sink.write_options
    /\ last.call.options["mergeSchema"] = "true"
    /\ last.call.options["overwriteSchema"] = "true"

\* C10 as stated: a write on a constructed sink never fails with a
\* configuration error.
C10_AsStated == ~(IsWrite /\ last.outcome = "ValueError")

\* C10, amended: construction refuses a format outside the supported ones,
\* a missing path, and mode MERGE with a format other than DELTA. On a
\* constructed sink the write methods still raise, before any writer or
\* merge call: ValueError exactly when it is a Spark write on an EXCEL
\* sink, a Polars write with a non-empty mode on a sink that is not DELTA,
\* or a Polars write with no mode (None or the empty string) on a DELTA
\* sink whose target exists and that is not a full refresh; AttributeError
\* exactly when it is a Spark write on a sink that is not EXCEL and either
\* no mode is given or configured, or the mode is merge and the sink has
\* no merge_cdc_options.
C10_ConfigurationErrors ==
    /\ last.op = "construct" =>
          /\ (last.outcome = "ValueError")
                <=> \/ attempt.format \notin {"CSV", "PARQUET", "DELTA", "JSON", "EXCEL"}
                    \/ attempt.path = None
                    \/ attempt.mode = "MERGE" /\ attempt.format # "DELTA"
          /\ sink.constructed <=> last.outcome = "ok"
    /\ last.op = "write_spark" =>
          /\ (last.outcome = "ValueError") <=> (sink.format = "EXCEL")
          /\ (last.outcome = "AttributeError")
                <=> /\ sink.format # "EXCEL"
                    /\ \/ StartMode = None
                       \/ Lower(StartMode) = "merge" /\ ~sink.has_cdc
    /\ last.op = "write_polars" => last.outcome # "AttributeError"
    /\ last.op = "write_polars" =>
          ((last.outcome = "ValueError")
              <=> \/ sink.format # "DELTA" /\ last.arg_mode \notin {None, ""}
                  \/ /\ sink.format = "DELTA" /\ last.arg_mode \in {None, ""}
                     /\ last.existed /\ ~last.full_refresh)
    /\ last.outcome \in {"ValueError", "AttributeError"}
          => (last.call.kind = "none" /\ last.cdc_calls = 0)

C10_Witness ==
    /\ last.op = "write_polars" /\ last.outcome = "ValueError"
    /\ sink.format = "DELTA" /\ sink.mode = "APPEND" /\ last.arg_mode = None
    /\ last.existed

(***************************************************************************)
(* FileDataSink.as_source                                                  *)
(***************************************************************************)

\* Python's True and False where None is a third value.
PyTrue == "True"

PyFalse == "False"

\* The `as_stream` argument of as_source.
AsStreamArgs == {None, PyTrue, PyFalse}

\* The attributes of a sink that its write methods do not read.
SinkAttrs ==
    { [path |-> "tables/brz", dataframe_backend |-> None, parent |-> None],
      [path |-> "tables/brz", dataframe_backend |-> "SPARK", parent |-> "node"] }

DefaultAttrs == [path |-> "tables/brz", dataframe_backend |-> None, parent |-> None]

\* FileDataSource(path=..., format=...): the other fields at their defaults.
FileDataSource(path, format) ==
    [path |-> path, format |-> format, as_stream |-> PyFalse,
     dataframe_backend |-> None, parent |-> None]

\* A source built without the sink's format.
as_source_default_format(s, a, as_stream) ==
    LET src0 == FileDataSource(a.path, "DELTA")
        src1 == IF as_stream = PyTrue THEN [src0 EXCEPT !.as_stream = as_stream] ELSE src0
        src2 == IF a.dataframe_backend # None
                THEN [src1 EXCEPT !.dataframe_backend = a.dataframe_backend]
                ELSE src1
    IN  [src2 EXCEPT !.parent = a.parent]

\* FileDataSink.as_source on the sink s with the attributes a.
as_source(s, a, as_stream) ==
    LET src0 == FileDataSource(a.path, s.format)
        src1 == IF as_stream = PyTrue THEN [src0 EXCEPT !.as_stream = as_stream] ELSE src0
        src2 == IF a.dataframe_backend # None
                THEN [src1 EXCEPT !.dataframe_backend = a.dataframe_backend]
                ELSE src1
    IN  [src2 EXCEPT !.parent = a.parent]

NoSource == [called |-> FALSE]

\* Reading a file source: the engine looks at the source's path and reads
\* what the writer stored there in the source's format.
ReadSource(src) ==
    IF src.path # attrs.path \/ ~exists(target)
    THEN [outcome |-> "NotFound", rows |-> <<>>]
    ELSE IF Lower(src.format) # written.format
         THEN [outcome |-> "FormatError", rows |-> <<>>]
         ELSE [outcome |-> "ok", rows |-> target.rows]

AsSource(as_stream) ==
    /\ sink.constructed
    /\ source' = [called |-> TRUE, as_stream |-> as_stream,
                  result |-> as_source(sink, attrs, as_stream)]
    /\ UNCHANGED attrs
    /\ UNCHANGED sinkVars
    /\ UNCHANGED nonSourceVars

SourceIdle ==
    /\ attrs = DefaultAttrs
    /\ source = NoSource

\* The last write succeeded and replaced whatever the target held.
WroteAfresh ==
    /\ IsWrite /\ last.outcome = "ok"
    /\ \/ ~last.existed
       \/ last.call.kind # "merge" /\ Lower(last.call.mode) \in {"overwrite", "complete"}
       \/ last.call.kind = "polars" /\ last.call.format # "delta"

C11_PurgeRemovesEverything ==
    last.op = "purge" =>
        /\ last.outcome = "ok"
        /\ ~exists(target)
        /\ SinkCheckpoint \notin DOMAIN checkpoint
        /\ purge_data(target) = target
        /\ purge_checkpoint(checkpoint, SinkCheckpoint) = checkpoint

\* A purge of a sink whose target, a single file, existed.
C11_Witness ==
    /\ last.op = "purge" /\ last.outcome = "ok"
    /\ last.existed
    /\ sink.format = "CSV"
    /\ target = Absent

(***************************************************************************)
(* AccessControlRuleSet                                                    *)
(***************************************************************************)

\* The longest grant_rules list given to the constructor.
MaxGrants == 2

Principals == {"service-principals/abc-123", "groups/data-engineers"}

Roles == {"ADMIN", "USER"}

\* AccessControlRuleSetGrant
AccessControlRuleSetGrant == [principal : Principals, role : Roles]

GrantLists == UNION {[1..n -> AccessControlRuleSetGrant] : n \in 0..MaxGrants}

Descriptions == {None, "Access control rules"}

RuleSetName == "my-access-control-rule-set"

\* The grant_rules argument: a list, or left out.
GrantArgs ==
    {[given |-> TRUE, rules |-> g] : g \in GrantLists}
        \cup {[given |-> FALSE, rules |-> <<>>]}

\* grant_rules: List[AccessControlRuleSetGrant] = Field(default_factory=list)
FieldValue(arg) == IF arg.given THEN arg.rules ELSE <<>>

\* A validator that refuses only a missing list.
validate_model_is_none(grant_rules) == FALSE

\* TRUE when validate_model raises: `if not self.grant_rules`.
validate_model(grant_rules) == Len(grant_rules) = 0

GrantRuleError == "At least one grant rule must be specified."

NoRuleSet == [constructed |-> FALSE]

NoRuleSetCall == [called |-> FALSE]

NoArgs == [called |-> FALSE]

\* AccessControlRuleSet.terraform_resource_args
terraform_resource_args(rs) ==
    LET args0 == Dict1("name", rs.name)
        args1 == IF rs.description # None
                 THEN DictUpdate(args0, Dict1("description", rs.description))
                 ELSE args0
    IN  IF Len(rs.grant_rules) > 0
        THEN DictUpdate(args1,
                 Dict1("grant_rules",
                       [i \in 1..Len(rs.grant_rules) |->
                           [principal |-> rs.grant_rules[i].principal,
                            role |-> rs.grant_rules[i].role]]))
        ELSE args1

\* AccessControlRuleSet.pulumi_resource_args
pulumi_resource_args(rs) == terraform_resource_args(rs)

\* AccessControlRuleSet(name=..., description=..., grant_rules=...)
ConstructRuleSet(description, arg) ==
    /\ IF validate_model(FieldValue(arg))
       THEN /\ rs_call' = [called |-> TRUE, arg |-> arg, outcome |-> "ValueError",
                           message |-> GrantRuleError]
            /\ UNCHANGED <<ruleset, tf_args>>
       ELSE /\ rs_call' = [called |-> TRUE, arg |-> arg, outcome |-> "ok",
                           message |-> None]
            /\ ruleset' = [constructed |-> TRUE, name |-> RuleSetName,
                           description |-> description,
                           grant_rules |-> FieldValue(arg)]
            /\ tf_args' = NoArgs
    /\ UNCHANGED nonRulesetVars

TerraformResourceArgs ==
    /\ ruleset.constructed
    /\ tf_args' = [called |-> TRUE, method |-> "terraform",
                   args |-> terraform_resource_args(ruleset)]
    /\ UNCHANGED <<ruleset, rs_call>>
    /\ UNCHANGED nonRulesetVars

PulumiResourceArgs ==
    /\ ruleset.constructed
    /\ tf_args' = [called |-> TRUE, method |-> "pulumi",
                   args |-> pulumi_resource_args(ruleset)]
    /\ UNCHANGED <<ruleset, rs_call>>
    /\ UNCHANGED nonRulesetVars

RulesetIdle ==
    /\ ruleset = NoRuleSet
    /\ rs_call = NoRuleSetCall
    /\ tf_args = NoArgs

\* C13: a constructor call with an empty grant_rules list, given or left
\* at its default, fails with 'At least one grant rule must be specified.';
\* every constructed rule set has at least one grant rule, and its resource
\* arguments hold a grant_rules list with one {principal, role} entry per
\* grant rule, in the order of declaration.
C13_GrantRulesRequired ==
    /\ (rs_call.called /\ Len(FieldValue(rs_call.arg)) = 0) =>
          /\ rs_call.outcome = "ValueError"
          /\ rs_call.message = "At least one grant rule must be specified."
    /\ (rs_call.called /\ Len(FieldValue(rs_call.arg)) > 0) =>
          /\ rs_call.outcome = "ok"
          /\ ruleset.constructed
          /\ ruleset.grant_rules = rs_call.arg.rules
    /\ ruleset.constructed => Len(ruleset.grant_rules) >= 1
    /\ tf_args.called =>
          /\ "grant_rules" \in DOMAIN tf_args.args
          /\ Len(tf_args.args["grant_rules"]) = Len(ruleset.grant_rules)
          /\ \A i \in 1..Len(ruleset.grant_rules) :
                tf_args.args["grant_rules"][i]
                   = [principal |-> ruleset.grant_rules[i].principal,
                      role |-> ruleset.grant_rules[i].role]

\* A rule set with two different grants whose arguments were computed,
\* after which a constructor call without grant_rules was refused.
C13_Witness ==
    /\ rs_call.called /\ ~rs_call.arg.given /\ rs_call.outcome = "ValueError"
    /\ ruleset.constructed /\ Len(ruleset.grant_rules) = 2
    /\ ruleset.grant_rules[1] # ruleset.grant_rules[2]
    /\ tf_args.called
    /\ Len(tf_args.args["grant_rules"]) = 2

(***************************************************************************)
(* Pipeline: dependency graph, sorted nodes, execute                       *)
(***************************************************************************)

\* The number of nodes of a pipeline.
MaxNodes == 3

\* Nodes are named by their place in the declaration.
NodeIds == 1..MaxNodes

\* A reference to at most one node: empty for an external source or a
\* transformer that names no node.
AllNodeRefs == {S \in SUBSET NodeIds : Cardinality(S) <= 1}

\* The references node n can hold: any node but itself.
NodeRefs(n) == {S \in AllNodeRefs : n \notin S}

\* A graph that misses the references made by transformer steps.
DagEdges_sources_only(ns) ==
    {e \in NodeIds \X NodeIds : e[1] \in ns[e[2]].source}

\* Pipeline.dag: an edge from producer to consumer for every reference of
\* a node's source and of its transformer's steps.
DagEdges(ns) ==
    {e \in NodeIds \X NodeIds :
        e[1] \in ns[e[2]].source \/ e[1] \in ns[e[2]].transformer}

\* The references of a pipeline's nodes form no cycle: there is no set of
\* nodes in which every node reads a node of the set.
Acyclic(ns) ==
    \A S \in (SUBSET NodeIds) \ {{}} :
        \E n \in S : (ns[n].source \cup ns[n].transformer) \cap S = {}

Range(q) == {q[i] : i \in 1..Len(q)}

Least(S) == CHOOSE n \in S : \A m \in S : n <= m

\* Kahn's ordering, ties broken by declaration order.
RECURSIVE TopologicalSort(_, _)
TopologicalSort(E, done) ==
    LET ready == {n \in NodeIds \ Range(done) :
                     \A m \in NodeIds : <<m, n>> \in E => m \in Range(done)}
    IN  IF ready = {} THEN done
        ELSE TopologicalSort(E, Append(done, Least(ready)))

\* The nodes a node reads when it executes.
Reads(n) == nodes[n].source \cup nodes[n].transformer

Idle == [active |-> FALSE, full_refresh |-> FALSE, executed |-> <<>>]

\* Pipeline.execute: the run starts at the head of sorted_nodes.
StartExecute(full_refresh) ==
    /\ ~run.active
    /\ run' = [active |-> TRUE, full_refresh |-> full_refresh, executed |-> <<>>]
    /\ UNCHANGED <<nodes, sorted_nodes>>
    /\ UNCHANGED nonDagVars

\* One turn of `for node in self.sorted_nodes: node.execute(...)`.
ExecuteNode ==
    /\ run.active
    /\ Len(run.executed) < Len(sorted_nodes)
    /\ LET done == Append(run.executed, sorted_nodes[Len(run.executed) + 1])
       IN  run' = [run EXCEPT !.executed = done,
                              !.active = Len(done) < Len(sorted_nodes)]
    /\ UNCHANGED <<nodes, sorted_nodes>>
    /\ UNCHANGED nonDagVars

DagIdle ==
    /\ nodes = <<>>
    /\ sorted_nodes = <<>>
    /\ run = Idle

SinkIdle ==
    /\ sink = NoSink
    /\ attempt = [mode |-> None, format |-> None, path |-> None]
    /\ target = Absent
    /\ written = NoWrite
    /\ checkpoint = EmptyDict
    /\ last = NoTrace

(***************************************************************************)
(* A pipeline at work: a streaming bronze node, a streaming silver node    *)
(* with an expectation and a quarantine sink, a static gold node.          *)
(***************************************************************************)

\* The longest source table.
MaxRows == 3

\* Executions are counted up to this number.
MaxRuns == 2

\* A source row passes the silver expectation ("good"), fails it ("bad") or
\* is dropped by the silver transformer ("skip").
RowKinds == {"good", "bad", "skip"}

\* The symbols of the source table. Its rows are numbered in the order of
\* (created_at, symbol), so the symbols repeat in this order.
Symbols == <<"AAPL", "AMZN", "GOOGL", "MSFT">>

Symbol(i) == Symbols[((i - 1) % Len(Symbols)) + 1]

Row(i, k) == [id |-> i, kind |-> k, symbol |-> Symbol(i)]

\* A row of the gold table: one per symbol, computed from its rows.
AggRow(sym, rows) == [symbol |-> sym, count |-> Len(rows)]

\* The gold node's aggregation: group by symbol, one row per group.
Aggregate(rows) ==
    LET groups == SelectSeq(Symbols,
                            LAMBDA sym : \E i \in 1..Len(rows) : rows[i].symbol = sym)
    IN  [g \in 1..Len(groups) |->
            AggRow(groups[g], SelectSeq(rows, LAMBDA row : row.symbol = groups[g]))]

\* Pipeline.sorted_nodes of the pipeline.
PipelineOrder == <<"brz", "slv", "gld">>

SinkNames == {"brz", "slv", "slv_q", "gld"}

\* PipelineNode.all_sinks: the primary sink, then the quarantine sinks.
AllSinks(n) ==
    CASE n = "brz" -> <<"brz">>
      [] n = "slv" -> <<"slv", "slv_q">>
      [] n = "gld" -> <<"gld">>

SinkNode(s) == IF s = "slv_q" THEN "slv" ELSE s

\* FileDataSink.path of each sink.
SinkPath(s) ==
    CASE s = "brz" -> "tables/brz"
      [] s = "slv" -> "tables/slv"
      [] s = "slv_q" -> "tables/slv_q"
      [] s = "gld" -> "tables/gld"

Paths == {"tables/brz", "tables/slv", "tables/slv_q", "tables/gld"}

\* An id that does not tell the sinks apart.
SinkId_not_path(path) == "tables/brz"

\* FileDataSink._id
SinkId(path) == path

\* BaseDataSink._uuid: the digest of the sink's _id.
Uuid(id) ==
    CASE id = "tables/brz" -> "uuid-1"
      [] id = "tables/slv" -> "uuid-2"
      [] id = "tables/slv_q" -> "uuid-3"
      [] id = "tables/gld" -> "uuid-4"

\* BaseDataSink._checkpoint_location when checkpoint_location is unset:
\* <root_path>/<node_name>/checkpoints/sink-<uuid>
DefaultCheckpointLocation(root, node, path) ==
    <<root, node, "checkpoints", "sink", Uuid(SinkId(path))>>

RootPath == "root"

\* No pipeline whose layout is examined.
LayoutIdle ==
    /\ root_path = RootPath
    /\ pl_sinks = <<>>

PipelineCheckpoint(s) == DefaultCheckpointLocation(RootPath, SinkNode(s), SinkPath(s))

\* The sinks as the pipeline declares them: DELTA, appended to by the
\* streaming nodes, overwritten by the static one.
SinkConfig(s) ==
    NewSink(IF s = "gld" THEN "OVERWRITE" ELSE "APPEND", "DELTA", EmptyDict, FALSE, <<>>)

\* A dataframe: its input rows, the kinds of row it keeps, whether it
\* aggregates them, whether it is read as a stream.
DataFrame(streaming, input, keep, aggregate) ==
    [streaming |-> streaming, input |-> input, keep |-> keep, aggregate |-> aggregate]

\* The rows of a dataframe computed from its input past `offset`.
Collect(df, offset) ==
    LET kept == SelectSeq(SubSeq(df.input, offset + 1, Len(df.input)),
                          LAMBDA row : row.kind \in df.keep)
    IN  IF df.aggregate THEN Aggregate(kept) ELSE kept

\* The rows that fail the silver node's expectation.
Quarantined == {"bad"}

\* The rows the silver node's transformer keeps.
Transformed == {"good", "bad"}

\* What a node hands to each of its sinks: the rows that pass its
\* expectations to the primary sink, the others to the quarantine sink.
SinkDataFrame(s, st) ==
    CASE s = "brz" -> DataFrame(TRUE, landing, RowKinds, FALSE)
      [] s = "slv" -> DataFrame(TRUE, st["brz"].rows, Transformed \ Quarantined, FALSE)
      [] s = "slv_q" -> DataFrame(TRUE, st["brz"].rows, Transformed \cap Quarantined, FALSE)
      [] s = "gld" -> DataFrame(FALSE, st["slv"].rows, {"good"}, TRUE)

\* The state a node's execution works on.
Disk(st, c, ok) == [store |-> st, cps |-> c, ok |-> ok]

\* sink.purge(): the data and the checkpoint of the sink.
PurgeSink(d, s) ==
    Disk([d.store EXCEPT ![s] = purge_data(@)],
         purge_checkpoint(d.cps, PipelineCheckpoint(s)), d.ok)

\* sink.write(df, full_refresh=full_refresh): the sink decides the call,
\* the engine runs it; a streaming query resumes from its checkpoint.
WriteSink(d, s, df, full_refresh) ==
    IF ~d.ok THEN d
    ELSE LET r == write_spark(SinkConfig(s), exists(d.store[s]), None, full_refresh,
                              df.streaming, PipelineCheckpoint(s))
         IN  IF r.outcome # "ok" \/ EngineRejects(d.store[s], r.call)
             THEN Disk(d.store, d.cps, FALSE)
             ELSE LET offset == IF r.call.kind = "stream"
                                   /\ r.call.options["checkpointLocation"] \in DOMAIN d.cps
                                THEN d.cps[r.call.options["checkpointLocation"]] ELSE 0
                  IN  IF offset > Len(df.input)
                      THEN Disk(d.store, d.cps, FALSE)   \* the source was rewritten
                      ELSE Disk([d.store EXCEPT
                                    ![s] = EngineWrite(@, r.call, Collect(df, offset))],
                                CommitOffset(d.cps, r.call, Len(df.input)), TRUE)

RECURSIVE PurgeSinks(_, _)
PurgeSinks(d, sinks) ==
    IF sinks = <<>> THEN d ELSE PurgeSinks(PurgeSink(d, Head(sinks)), Tail(sinks))

RECURSIVE WriteSinks(_, _, _)
WriteSinks(d, sinks, full_refresh) ==
    IF sinks = <<>> THEN d
    ELSE WriteSinks(WriteSink(d, Head(sinks), SinkDataFrame(Head(sinks), d.store),
                              full_refresh),
                    Tail(sinks), full_refresh)

\* PipelineNode.execute: a full refresh, or a primary sink that is missing,
\* discards what the node's sinks and checkpoints hold; then every sink is
\* written in turn.
NodeExecute(d, n, full_refresh) ==
    LET d0 == IF full_refresh \/ ~exists(d.store[Head(AllSinks(n))])
              THEN PurgeSinks(d, AllSinks(n)) ELSE d
    IN  WriteSinks(d0, AllSinks(n), full_refresh)

\* cursor: the nodes executed by the current run; it returns to 0 when the
\* source changes.
NoRun == [active |-> FALSE, full_refresh |-> FALSE, cursor |-> 0, failed |-> FALSE,
          after_rewrite |-> FALSE, runs |-> 0]

\* Rows are appended to the source between two executions.
AppendRow(k) ==
    /\ ~prun.active
    /\ Len(landing) < MaxRows
    /\ landing' = Append(landing, Row(Len(landing) + 1, k))
    /\ prun' = [prun EXCEPT !.cursor = 0]
    /\ UNCHANGED <<append_only, store, cps>>
    /\ UNCHANGED nonPipeVars

\* The source is overwritten with its first n rows.
OverwriteSource(n) ==
    /\ ~prun.active
    /\ n < Len(landing)
    /\ landing' = SubSeq(landing, 1, n)
    /\ append_only' = FALSE
    /\ prun' = [prun EXCEPT !.cursor = 0]
    /\ UNCHANGED <<store, cps>>
    /\ UNCHANGED nonPipeVars

\* Pipeline.execute(full_refresh=...)
PipelineExecute(full_refresh) ==
    /\ ~prun.active
    /\ Len(landing) > 0
    /\ prun' = [active |-> TRUE, full_refresh |-> full_refresh, cursor |-> 0,
                failed |-> FALSE, after_rewrite |-> ~append_only,
                runs |-> IF prun.runs < MaxRuns THEN prun.runs + 1 ELSE MaxRuns]
    /\ append_only' = (append_only \/ full_refresh)
    /\ UNCHANGED <<landing, store, cps>>
    /\ UNCHANGED nonPipeVars

\* The next node of the run executes; an error aborts the run.
PipelineStep ==
    /\ prun.active
    /\ LET n == PipelineOrder[prun.cursor + 1]
           d == NodeExecute(Disk(store, cps, TRUE), n, prun.full_refresh)
       IN  IF d.ok
           THEN /\ store' = d.store
                /\ cps' = d.cps
                /\ prun' = [prun EXCEPT !.cursor = @ + 1,
                                        !.active = prun.cursor + 1 < Len(PipelineOrder)]
           ELSE /\ prun' = [prun EXCEPT !.active = FALSE, !.failed = TRUE]
                /\ UNCHANGED <<store, cps>>
    /\ UNCHANGED <<landing, append_only>>
    /\ UNCHANGED nonPipeVars

PipeIdle ==
    /\ landing = <<>>
    /\ append_only = TRUE
    /\ store = [s \in SinkNames |-> Absent]
    /\ cps = EmptyDict
    /\ prun = NoRun

PipeInit == SinkIdle /\ DagIdle /\ PipeIdle /\ LayoutIdle /\ SourceIdle /\ RulesetIdle

PipeNext ==
    \/ \E k \in RowKinds : AppendRow(k)
    \/ \E n \in 0..MaxRows : OverwriteSource(n)
    \/ \E fr \in BOOLEAN : PipelineExecute(fr)
    \/ PipelineStep

PipeSpec == PipeInit /\ [][PipeNext]_vars

(***************************************************************************)
(* Properties of the pipeline's executions                                 *)
(***************************************************************************)

\* The rows of the source of a kind in `keep`.
SourceRows(keep) == SelectSeq(landing, LAMBDA row : row.kind \in keep)

\* What one execution over the whole source leaves in each sink.
SinglePass(s) ==
    CASE s = "brz" -> landing
      [] s = "slv" -> SourceRows({"good"})
      [] s = "slv_q" -> SourceRows({"bad"})
      [] s = "gld" -> Aggregate(SourceRows({"good"}))

SinksMatchSource == \A s \in SinkNames : store[s] = Dir(SinglePass(s))

\* The last execution ran every node and the source has not changed since.
Finished == ~prun.active /\ ~prun.failed /\ prun.cursor = Len(PipelineOrder)

\* C6: on a source that is only appended to, every execution succeeds, and
\* an incremental execution after each batch leaves every primary and
\* quarantine sink as a single execution over all the rows would: each
\* source row is in the sinks exactly once.
C6_IncrementalEqualsSinglePass ==
    /\ append_only => ~prun.failed
    /\ (append_only /\ Finished /\ ~prun.full_refresh) => SinksMatchSource

\* A second incremental execution, after a batch was appended.
C6_Witness ==
    /\ append_only /\ Finished /\ ~prun.full_refresh /\ prun.runs = MaxRuns
    /\ Len(landing) = MaxRows /\ SourceRows({"bad"}) # <<>>
    /\ cps[PipelineCheckpoint("slv_q")] = MaxRows
    /\ store["brz"] = Dir(landing)

\* C7: an execution with full_refresh=True leaves every sink holding the
\* result of processing the source's current contents, whatever the sinks
\* and checkpoints held before: after the source is overwritten with its
\* first rows, and again when it is repeated on the same input.
C7_FullRefreshResets ==
    (Finished /\ prun.full_refresh) => SinksMatchSource

\* A full refresh after incremental runs and an overwrite of the source.
C7_Witness ==
    /\ Finished /\ prun.full_refresh /\ prun.after_rewrite /\ prun.runs = MaxRuns
    /\ Len(landing) > 0 /\ Len(landing) < MaxRows
    /\ store["brz"] = Dir(landing)

CountKind(rows, keep) == Len(SelectSeq(rows, LAMBDA row : row.kind \in keep))

\* C8: between executions the rows of the silver node are partitioned:
\* the primary sink holds only rows that pass the rule, the quarantine sink
\* only rows that fail it, no row is in both, together they are the rows
\* the transformer kept of the node's input; rows failing the rule do not
\* abort an execution.
C8_QuarantinePartition ==
    ~prun.active =>
        /\ \A i \in 1..Len(store["slv"].rows) : store["slv"].rows[i].kind = "good"
        /\ \A i \in 1..Len(store["slv_q"].rows) : store["slv_q"].rows[i].kind = "bad"
        /\ \A i \in 1..Len(store["slv"].rows) : \A j \in 1..Len(store["slv_q"].rows) :
              store["slv"].rows[i].id # store["slv_q"].rows[j].id
        /\ Len(store["slv"].rows) + Len(store["slv_q"].rows)
              = CountKind(store["brz"].rows, {"good", "bad"})
        /\ (append_only /\ SourceRows({"bad"}) # <<>>) => ~prun.failed

C8_Witness ==
    /\ Finished /\ Len(store["slv"].rows) > 0 /\ Len(store["slv_q"].rows) > 0
    /\ CountKind(store["brz"].rows, {"skip"}) > 0

(***************************************************************************)
(* The checkpoint locations of a pipeline's sinks                          *)
(***************************************************************************)

\* The number of sinks of the pipeline.
MaxSinks == 2

SinkIndex == 1..MaxSinks

NodeNames == {"brz", "slv"}

RootPaths == {"root", "tmp/pl"}

\* checkpoint_location: Union[str, None] = None
Unset == <<>>

\* The locations a user sets explicitly.
ExplicitLocations == {<<"mnt", "cp1">>, <<"mnt", "cp2">>}

\* BaseDataSink._checkpoint_location: the location set on the sink, else
\* the one derived from the pipeline's root path, the node and the sink.
CheckpointLocation(root, s) ==
    IF s.checkpoint_location # Unset
    THEN s.checkpoint_location
    ELSE DefaultCheckpointLocation(root, s.node, s.path)

\* pl.root_path = ...
SetRootPath(r) ==
    /\ root_path # r
    /\ root_path' = r
    /\ UNCHANGED pl_sinks
    /\ UNCHANGED nonLayoutVars

\* sink.checkpoint_location = ...
SetCheckpointLocation(i, loc) ==
    /\ pl_sinks[i].checkpoint_location # loc
    /\ pl_sinks' = [pl_sinks EXCEPT ![i].checkpoint_location = loc]
    /\ UNCHANGED root_path
    /\ UNCHANGED nonLayoutVars

\* C9 as stated: every sink's checkpoint location is
\* <root_path>/<node_name>/checkpoints/sink-<uuid> and no two sinks of the
\* pipeline share one.
C9_AsStated ==
    /\ \A i \in SinkIndex :
          CheckpointLocation(root_path, pl_sinks[i])
             = <<root_path, pl_sinks[i].node, "checkpoints", "sink",
                 Uuid(pl_sinks[i].path)>>
    /\ \A i, j \in SinkIndex :
          i # j => CheckpointLocation(root_path, pl_sinks[i])
                      # CheckpointLocation(root_path, pl_sinks[j])

\* C9, amended: every sink whose checkpoint_location is unset has the
\* location <root_path>/<node_name>/checkpoints/sink-<uuid>, and two such
\* sinks that differ in their node or in their path have different
\* locations.
C9_DefaultCheckpointLocations ==
    /\ \A i \in SinkIndex :
          pl_sinks[i].checkpoint_location = Unset =>
              CheckpointLocation(root_path, pl_sinks[i])
                 = <<root_path, pl_sinks[i].node, "checkpoints", "sink",
                     Uuid(pl_sinks[i].path)>>
    /\ \A i, j \in SinkIndex :
          (/\ pl_sinks[i].checkpoint_location = Unset
           /\ pl_sinks[j].checkpoint_location = Unset
           /\ (pl_sinks[i].node # pl_sinks[j].node \/ pl_sinks[i].path # pl_sinks[j].path))
             => CheckpointLocation(root_path, pl_sinks[i])
                   # CheckpointLocation(root_path, pl_sinks[j])

\* The primary and the quarantine sink of one node, after the root path
\* was moved.
C9_Witness ==
    /\ root_path = "tmp/pl"
    /\ pl_sinks[1].node = "slv" /\ pl_sinks[2].node = "slv"
    /\ pl_sinks[1].path = "tables/slv" /\ pl_sinks[2].path = "tables/slv_q"
    /\ pl_sinks[1].checkpoint_location = Unset
    /\ pl_sinks[2].checkpoint_location = Unset

\* A pipeline after construction: its references form a DAG and its nodes
\* are sorted.
DagInit ==
    /\ SinkIdle
    /\ PipeIdle
    /\ LayoutIdle
    /\ SourceIdle
    /\ RulesetIdle
    /\ \E s \in [NodeIds -> AllNodeRefs], t \in [NodeIds -> AllNodeRefs] :
          /\ \A n \in NodeIds : s[n] \in NodeRefs(n) /\ t[n] \in NodeRefs(n)
          /\ LET ns == [n \in NodeIds |-> [source |-> s[n], transformer |-> t[n]]]
             IN  Acyclic(ns) /\ nodes = ns
    /\ sorted_nodes = TopologicalSort(DagEdges(nodes), <<>>)
    /\ run = Idle

DagNext ==
    \/ \E fr \in BOOLEAN : StartExecute(fr)
    \/ ExecuteNode

DagSpec == DagInit /\ [][DagNext]_vars

Position(q, n) == CHOOSE i \in 1..Len(q) : q[i] = n

\* C5: the sorted nodes are a permutation of the pipeline's nodes in which
\* every node comes after each node its source or a step of its transformer
\* references, and execute runs the nodes one at a time in that order: when
\* a node executes, every node it reads has executed earlier in the run.
C5_TopologicalExecution ==
    /\ Len(sorted_nodes) = MaxNodes /\ Range(sorted_nodes) = NodeIds
    /\ \A b \in NodeIds : \A a \in Reads(b) :
          Position(sorted_nodes, a) < Position(sorted_nodes, b)
    /\ Len(run.executed) <= Len(sorted_nodes)
    /\ \A i \in 1..Len(run.executed) :
          /\ run.executed[i] = sorted_nodes[i]
          /\ \A a \in Reads(run.executed[i]) :
                \E j \in 1..(i - 1) : run.executed[j] = a

\* A finished run of a pipeline whose declaration order is not a valid
\* order: the first node joins the last one in its transformer.
C5_Witness ==
    /\ nodes[1].transformer = {MaxNodes} /\ nodes[MaxNodes].source = {2}
    /\ ~run.active /\ Len(run.executed) = MaxNodes
    /\ run.executed[MaxNodes] = 1

\* A pipeline after construction: every sink belongs to a node and has a
\* path; no checkpoint_location is set.
LayoutInit ==
    /\ SinkIdle /\ DagIdle /\ PipeIdle /\ SourceIdle /\ RulesetIdle
    /\ root_path = RootPath
    /\ pl_sinks \in [SinkIndex -> [node : NodeNames, path : Paths,
                                   checkpoint_location : {Unset}]]

LayoutNext ==
    \/ \E r \in RootPaths : SetRootPath(r)
    \/ \E i \in SinkIndex, loc \in ExplicitLocations \cup {Unset} :
          SetCheckpointLocation(i, loc)

LayoutSpec == LayoutInit /\ [][LayoutNext]_vars

Init ==
    /\ SinkIdle
    /\ DagIdle
    /\ PipeIdle
    /\ LayoutIdle
    /\ SourceIdle
    /\ RulesetIdle

RulesetInit ==
    /\ SinkIdle /\ DagIdle /\ PipeIdle /\ LayoutIdle /\ SourceIdle
    /\ RulesetIdle

RulesetNext ==
    \/ \E d \in Descriptions, g \in GrantArgs : ConstructRuleSet(d, g)
    \/ TerraformResourceArgs
    \/ PulumiResourceArgs

RulesetSpec == RulesetInit /\ [][RulesetNext]_vars

\* A sink with any path, dataframe backend and parent, not yet constructed.
SourceInit ==
    /\ SinkIdle /\ DagIdle /\ PipeIdle /\ LayoutIdle /\ RulesetIdle
    /\ attrs \in SinkAttrs
    /\ source = NoSource

\* The `mode` arguments of the writes that precede a read of the source.
SourceArgModes == {None, "APPEND", "OVERWRITE", "MERGE"}

\* The modes the sinks whose source is read are configured with.
SourceConfigModes == {None, "APPEND", "MERGE"}

SourceNext ==
    \/ \E m \in SourceConfigModes, f \in FormatArgs, p \in PathArgs :
          Construct(m, f, p, EmptyDict, TRUE, <<>>)
    \/ \E m \in SourceArgModes, fr \in BOOLEAN, st \in BOOLEAN, df \in Dfs :
          WriteSpark(m, fr, st, df)
    \/ \E m \in SourceArgModes, fr \in BOOLEAN, df \in Dfs : WritePolars(m, fr, df)
    \/ Purge
    \/ \E a \in AsStreamArgs : AsSource(a)

SourceSpec == SourceInit /\ [][SourceNext]_vars

Next ==
    \/ \E m \in ConfigModes, f \in FormatArgs, p \in PathArgs, o \in WriteOptionChoices,
          c \in BOOLEAN, cl \in ClusterByChoices : Construct(m, f, p, o, c, cl)
    \/ \E m \in ArgModes, fr \in BOOLEAN, st \in BOOLEAN, df \in OneDf :
          WriteSpark(m, fr, st, df)
    \/ \E m \in ArgModes, fr \in BOOLEAN, df \in OneDf : WritePolars(m, fr, df)
    \/ Purge

Spec == Init /\ [][Next]_vars
====
